---- MODULE Spec2Model ----
(***************************************************************************)
(* Token-based session authentication with server-side invalidation:      *)
(* login, refresh-token rotation, logout, the request authentication gate,*)
(* the expired-record cleanup and the user-table operations that touch    *)
(* the invalidated_tokens table.                                           *)
(*                                                                         *)
(* Every handler is an async function; it is split at its awaits on the   *)
(* database (and on bcrypt), so that requests interleave exactly where     *)
(* the event loop lets them.  Each step is the database operation plus     *)
(* the synchronous code that runs on its result.                           *)
(***************************************************************************)
EXTENDS Integers, Sequences, FiniteSets, TLC

(***************************************************************************)
(* Bounds of the model.                                                    *)
(***************************************************************************)
\* Last clock second of a behaviour.
MaxSec == 2
\* env.jwt.expiresIn and env.jwt.refreshExpiresIn, in seconds (scaled down).
AccessTtlSec == 1
RefreshTtlSec == 2
\* Requests in flight at once, and requests started in one behaviour.
NumSlots == 2
MaxRequests == 4
\* Sweeps of the cleanup job in flight at once, and timer firings counted.
MaxPending == 2
MaxTicks == 2
\* Parts of an Authorization header (authHeader.split(' ')).
MaxParts == 3
\* Signals delivered to the process in one behaviour.
MaxSignals == 3

(***************************************************************************)
(* Program constants.                                                      *)
(***************************************************************************)
\* JWT_CONSTANTS.UNIX_TIMESTAMP: milliseconds per second of a JWT exp.
UNIX_TIMESTAMP == 1000
UNAUTHORIZED == 401
BAD_REQUEST == 400
INTERNAL_SERVER_ERROR == 500
OK == 200

VARIABLES
    env,        \* TOKEN_CONFIG: the two signing secrets
    clock,      \* Date.now(), milliseconds
    users,      \* table users: id -> "absent" | "active" | "inactive" | "deleted"
    store,      \* table invalidated_tokens: set of rows
    slots,      \* the requests in flight, one record per slot
    janitor,    \* the cleanup job: its timer and the sweeps in flight
    issued,     \* every token string the server has handed out
    rotations,  \* the successful refreshToken calls: [old, new, dbErr, k], k-th of old
    loggedOut,  \* tokens whose logout request answered 200
    nReq,       \* requests started so far
    proc        \* the process: server, signal handlers, shutdown

vars == <<env, clock, users, store, slots, janitor, issued, rotations, loggedOut, nReq, proc>>

Slots == 1..NumSlots
UserIds == {"u1", "u2"}

(***************************************************************************)
(* The clock.  Two instants per second: the second's first millisecond     *)
(* and the one after it, so that "expiresAt < now" and "expiresAt = now"   *)
(* both occur.                                                             *)
(***************************************************************************)
Instants == {s * UNIX_TIMESTAMP + d : s \in 0..MaxSec, d \in {0, 1}}
NowSec(ms) == ms \div UNIX_TIMESTAMP

(***************************************************************************)
(* User rows.  email is unique and never updated; password holds the      *)
(* bcrypt digest.                                                          *)
(***************************************************************************)
EmailOf(id) == IF id = "u1" THEN "u1@x.io" ELSE "u2@x.io"
BcryptHash(pw) == IF pw = "pw1" THEN "$2b$pw1" ELSE IF pw = "pw2" THEN "$2b$pw2" ELSE "$2b$other"
DigestOf(id) == IF id = "u1" THEN BcryptHash("pw1") ELSE BcryptHash("pw2")
UserExists(id) == users[id] \in {"active", "inactive"}

\* shared/utils/password-hashing.ts comparePassword
comparePassword(plainPassword, hashedPassword) == BcryptHash(plainPassword) = hashedPassword

(***************************************************************************)
(* Strings that travel as tokens.  A value is JS null, a plain word (not  *)
(* a JWT; possibly the empty string), or a JWT: its payload, and the      *)
(* secret its HS256 signature was made with.  Two JWTs with the same      *)
(* payload and secret are the same string (HS256 is deterministic and the *)
(* payload carries no jti).                                                *)
(***************************************************************************)
Null == [kind |-> "null", text |-> "", sig |-> "", id |-> "", email |-> "",
         isActive |-> FALSE, iat |-> 0, exp |-> 0]
Word(t) == [Null EXCEPT !.kind = "word", !.text = t]
AccessJwt(secret, id, email, isActive, iat, exp) ==
    [kind |-> "access", text |-> "", sig |-> secret, id |-> id, email |-> email,
     isActive |-> isActive, iat |-> iat, exp |-> exp]
RefreshJwt(secret, id, iat, exp) ==
    [kind |-> "refresh", text |-> "", sig |-> secret, id |-> id, email |-> "",
     isActive |-> FALSE, iat |-> iat, exp |-> exp]
IsJwt(t) == t.kind \in {"access", "refresh"}

\* jwt.sign(payload, TOKEN_CONFIG.JWT_SECRET, {expiresIn})
generateAccessToken(id, email, isActive, now) ==
    AccessJwt(env.secret, id, email, isActive, NowSec(now), NowSec(now) + AccessTtlSec)

\* jwt.sign({id}, TOKEN_CONFIG.REFRESH_TOKEN_SECRET, {expiresIn})
generateRefreshToken(userId, now) ==
    RefreshJwt(env.refreshSecret, userId, NowSec(now), NowSec(now) + RefreshTtlSec)

\* The refresh token login and refreshToken hand out together with access
\* token a: generated in the same call, for the same user, at the same clock.
PairOf(a) == RefreshJwt(env.refreshSecret, a.id, a.iat, a.iat + RefreshTtlSec)

\* jwt.verify: "ok", or the message of the error it throws.
JwtVerify(token, secret, now) ==
    IF ~IsJwt(token) THEN "jwt malformed"
    ELSE IF token.sig # secret THEN "invalid signature"
    ELSE IF NowSec(now) >= token.exp THEN "jwt expired"
    ELSE "ok"

\* jwt.decode: whether it yields an object payload with a numeric exp.
JwtDecodable(token) == IsJwt(token)

\* verifyToken as it would be with the expiry check lost (ignoreExpiration).
verifyTokenNoExpiry(token, now) ==
    /\ IsJwt(token) /\ token.sig = env.secret
    /\ token.kind = "access"
    /\ token.id # ""
    /\ token.email # ""

\* token.utils verifyToken: jwt.verify with the access secret, then the check
\* that id and email are non-empty (a payload without email throws a
\* TypeError inside the try, which the catch turns into a failure).
verifyToken(token, now) ==
    /\ JwtVerify(token, env.secret, now) = "ok"
    /\ token.kind = "access"
    /\ token.id # ""
    /\ token.email # ""

(***************************************************************************)
(* token.utils extractTokenFromHeader.  A header is the sequence of its   *)
(* words (authHeader.split(' ')); <<>> stands for a missing header.       *)
(***************************************************************************)
NoHeader == <<>>
ToLowerCase(t) == IF t \in {"Bearer", "BEARER", "bearer"} THEN "bearer" ELSE t
extractTokenFromHeader(authHeader) ==
    IF authHeader = NoHeader THEN Null
    ELSE IF Len(authHeader) = 2
              /\ authHeader[1].kind = "word"
              /\ ToLowerCase(authHeader[1].text) = "bearer"
         THEN authHeader[2]
    ELSE IF Len(authHeader) = 1
         THEN (IF authHeader[1] # Word("") THEN authHeader[1] ELSE Null)
    ELSE Null
NullOrEmpty(token) == token = Null \/ token = Word("")

(***************************************************************************)
(* Table invalidated_tokens (primary key token, foreign key userId).      *)
(***************************************************************************)
StoreTokens == {r.token : r \in store}
Row(token, userId, at) ==
    [token |-> token, userId |-> userId, invalidatedAt |-> at,
     expiresAt |-> token.exp * UNIX_TIMESTAMP]

\* CreateOk as it would be with no primary key on token.
CreateOkNoKey(token, userId, dbOk) ==
    /\ dbOk
    /\ UserExists(userId)

\* prisma.invalidatedToken.create succeeds: the database answers, the key is
\* new and the referenced user row exists.
CreateOk(token, userId, dbOk) ==
    /\ dbOk
    /\ token \notin StoreTokens
    /\ UserExists(userId)

\* tokenInvalidationService.invalidateToken: success flag.
invalidateTokenSuccess(token, userId, dbOk) ==
    JwtDecodable(token) /\ CreateOk(token, userId, dbOk)

\* invalidateTokenStore as it would be with upsert in place of create.
invalidateTokenStoreReplace(token, userId, dbOk) ==
    IF JwtDecodable(token) /\ dbOk /\ UserExists(userId)
    THEN {r \in store : r.token # token} \cup {Row(token, userId, clock)}
    ELSE store

\* invalidateTokenStore as it would be if revoking an access token revoked
\* the refresh token of its pair too.
invalidateTokenStoreWithPair(token, userId, dbOk) ==
    IF invalidateTokenSuccess(token, userId, dbOk)
    THEN store \cup {Row(token, userId, clock)}
               \cup (IF token.kind = "access" THEN {Row(PairOf(token), userId, clock)} ELSE {})
    ELSE store

\* tokenInvalidationService.invalidateToken: the table afterwards.
invalidateTokenStore(token, userId, dbOk) ==
    IF invalidateTokenSuccess(token, userId, dbOk)
    THEN store \cup {Row(token, userId, clock)}
    ELSE store

\* isTokenInvalidated as it would be if a database error counted as revoked.
isTokenInvalidatedFailClosed(token, dbOk) ==
    IF dbOk THEN token \in StoreTokens ELSE TRUE

\* tokenInvalidationService.isTokenInvalidated: findUnique, false on error.
isTokenInvalidated(token, dbOk) ==
    IF dbOk THEN token \in StoreTokens ELSE FALSE

\* cleanupExpiredTokens as it would be with lte in place of lt.
cleanupExpiredTokensInclusive(now, dbOk) ==
    IF dbOk THEN {r \in store : ~(r.expiresAt <= now)} ELSE store

\* cleanupExpiredTokens as it would be with a cut-off one second in the past.
cleanupExpiredTokensLate(now, dbOk) ==
    IF dbOk THEN {r \in store : ~(r.expiresAt < now - UNIX_TIMESTAMP)} ELSE store

\* cleanupExpiredTokens as it would be with the filter on invalidatedAt.
cleanupExpiredTokensByInvalidatedAt(now, dbOk) ==
    IF dbOk THEN {r \in store : ~(r.invalidatedAt < now)} ELSE store

\* tokenInvalidationService.cleanupExpiredTokens: deleteMany expiresAt < now.
cleanupExpiredTokens(now, dbOk) ==
    IF dbOk THEN {r \in store : ~(r.expiresAt < now)} ELSE store

(***************************************************************************)
(* Requests.                                                               *)
(***************************************************************************)
NoUser == [id |-> "", email |-> "", isActive |-> FALSE]
\* What an awaited service call settles with: a value, or the thing thrown
\* (an Error with a message, or any other value).
NoOutcome == [ok |-> FALSE, users |-> <<>>, isError |-> FALSE, text |-> ""]
IdleSlot ==
    [op |-> "idle", pc |-> "idle", hdr |-> NoHeader, tok |-> Null,
     email |-> "", password |-> "", user |-> NoUser, steps |-> <<>>,
     success |-> FALSE, status |-> 0, error |-> "",
     token |-> Null, refreshToken |-> Null,
     reqUser |-> NoUser, nextCalled |-> FALSE,
     isInvalidated |-> FALSE, dbErr |-> FALSE, revoked |-> FALSE,
     at |-> 0, after |-> FALSE, fresh |-> FALSE,
     outcome |-> NoOutcome, sent |-> 0, data |-> <<>>, count |-> 0, threw |-> FALSE]

\* What a client can send as a token: anything the server handed out, a
\* string that is no JWT, and a JWT signed with a key of the client's own.
Forged == AccessJwt("k-client", "u1", "u1@x.io", TRUE, 0, MaxSec + 1)
Presentable == issued \cup {Word("garbage"), Forged}

Fail(slot, status, error) ==
    [slot EXCEPT !.pc = "done", !.success = FALSE, !.status = status, !.error = error]

\* The cleanup job before setupTokenCleanupJob is called.  timer: "off",
\* "armed" (setInterval) or "cleared" (clearInterval).  pending: the sweeps in
\* flight, each the clock value its deleteMany was built with.  fired, started:
\* timer firings and sweeps started so far (they stop counting at MaxTicks).
\* last: the sweep that returned last.  rejected: a rejection left the job.
NoSweep == [done |-> FALSE, now |-> 0, ok |-> FALSE, purged |-> {}]
JobOff ==
    [timer |-> "off", pending |-> {}, fired |-> 0, started |-> 0,
     last |-> NoSweep, rejected |-> FALSE]

\* The process before bootstrap has run.  phase: "off", "listening",
\* "closing" (server.close called, connections still open), "closed" (the
\* close callbacks have run), "exited".  isShuttingDown: the flag of each
\* handler.  closeCallbacks: callbacks handed to server.close and not run yet.
Signals == {"SIGINT", "SIGTERM"}
ProcOff ==
    [phase |-> "off", isShuttingDown |-> [g \in Signals |-> FALSE],
     health |-> "off", delivered |-> 0, ignored |-> 0,
     cleanupCalls |-> 0, closeCalls |-> 0, closeCallbacks |-> 0]

Init ==
    /\ env = [secret |-> "k-access", refreshSecret |-> "k-refresh"]
    /\ clock = 0
    /\ users = [u \in UserIds |-> IF u = "u1" THEN "active" ELSE "absent"]
    /\ store = {}
    /\ slots = [s \in Slots |-> IdleSlot]
    /\ janitor = JobOff
    /\ issued = {}
    /\ rotations = {}
    /\ loggedOut = {}
    /\ nReq = 0
    /\ proc = ProcOff

Tick ==
    /\ \E t \in Instants :
          /\ t > clock
          /\ \A u \in Instants : u > clock => t <= u
          /\ clock' = t
    /\ UNCHANGED <<env, proc, users, store, slots, janitor, issued, rotations, loggedOut, nReq>>

Others == <<env, proc, clock, users, janitor>>

\* A slot is free before its first request and once its response is out; the
\* first free slot takes the next request.
Free(s) == slots[s].pc \in {"idle", "done"}
FreeSlot(s) ==
    /\ Free(s)
    /\ \A r \in Slots : r < s => ~Free(r)
    /\ nReq < MaxRequests

(***************************************************************************)
(* POST /api/auth/login: loginController.login over loginService.login.   *)
(***************************************************************************)
LoginEmails == {"u1@x.io", "U1@X.IO", "u2@x.io", "no-at-sign"}
LoginPasswords == {"pw1", "pw2"}
\* z.string().email(): the format check.
IsEmail(e) == e \in {"u1@x.io", "U1@X.IO", "u2@x.io"}
\* .trim().toLowerCase()
NormaliseEmail(e) == IF e = "U1@X.IO" THEN "u1@x.io" ELSE e

\* loginSchema.safeParse and the early return on a validation error.
loginValidate(slot) ==
    IF ~IsEmail(slot.email)
    THEN Fail(slot, UNAUTHORIZED, "Invalid email format")
    ELSE [slot EXCEPT !.pc = "li_find", !.email = NormaliseEmail(slot.email)]

\* findByEmail as it would be with the isActive filter lost (includeInactive).
findByEmailAnyUser(email) ==
    LET m == {u \in UserIds : EmailOf(u) = email /\ UserExists(u)}
    IN  IF m = {} THEN NoUser
        ELSE LET u == CHOOSE x \in m : TRUE
             IN  [id |-> u, email |-> EmailOf(u), isActive |-> (users[u] = "active")]

\* authRepository.findByEmail(email): where {email, isActive: true}.
findByEmail(email) ==
    LET m == {u \in UserIds : EmailOf(u) = email /\ users[u] = "active"}
    IN  IF m = {} THEN NoUser
        ELSE LET u == CHOOSE x \in m : TRUE
             IN  [id |-> u, email |-> EmailOf(u), isActive |-> (users[u] = "active")]

\* loginService.login from the user lookup to the call of comparePassword.
loginAfterFind(slot, dbOk) ==
    IF ~dbOk
    THEN [Fail(slot, UNAUTHORIZED, "Authentication failed") EXCEPT !.dbErr = TRUE]
    ELSE LET user == findByEmail(slot.email)
         IN  IF user = NoUser
             THEN Fail(slot, UNAUTHORIZED, "User not found")
             ELSE [slot EXCEPT !.pc = "li_compare", !.user = user,
                               !.steps = Append(@, "find")]

\* loginAfterCompare as it would be with the tokens generated before the
\* password check and left in the failure result.
loginAfterCompareLeaky(slot) ==
    LET ok == comparePassword(slot.password, DigestOf(slot.user.id))
    IN  [slot EXCEPT !.pc = "done", !.success = ok,
                     !.status = IF ok THEN OK ELSE UNAUTHORIZED,
                     !.error = IF ok THEN "" ELSE "Current password is incorrect",
                     !.steps = Append(@, "issue"),
                     !.token = generateAccessToken(slot.user.id, slot.user.email,
                                                   slot.user.isActive, clock),
                     !.refreshToken = generateRefreshToken(slot.user.id, clock)]

\* loginService.login from the password comparison to the result.
loginAfterCompare(slot) ==
    IF ~comparePassword(slot.password, DigestOf(slot.user.id))
    THEN Fail(slot, UNAUTHORIZED, "Current password is incorrect")
    ELSE [slot EXCEPT !.pc = "done", !.success = TRUE, !.status = OK,
                      !.steps = Append(@, "issue"),
                      !.token = generateAccessToken(slot.user.id, slot.user.email,
                                                    slot.user.isActive, clock),
                      !.refreshToken = generateRefreshToken(slot.user.id, clock)]

Handed(slot) == IF slot.success THEN {slot.token, slot.refreshToken} ELSE {}

StartLogin(s) ==
    /\ FreeSlot(s)
    /\ \E e \in LoginEmails, p \in LoginPasswords :
          slots' = [slots EXCEPT ![s] =
              loginValidate([IdleSlot EXCEPT !.op = "login", !.email = e, !.password = p,
                                             !.steps = <<"validate">>])]
    /\ nReq' = nReq + 1
    /\ UNCHANGED <<Others, store, issued, rotations, loggedOut>>

LoginFind(s) ==
    /\ slots[s].op = "login" /\ slots[s].pc = "li_find"
    /\ \E dbOk \in BOOLEAN : slots' = [slots EXCEPT ![s] = loginAfterFind(slots[s], dbOk)]
    /\ UNCHANGED <<Others, store, issued, rotations, loggedOut, nReq>>

LoginCompare(s) ==
    /\ slots[s].op = "login" /\ slots[s].pc = "li_compare"
    /\ slots' = [slots EXCEPT ![s] = loginAfterCompare(slots[s])]
    /\ issued' = issued \cup Handed(slots'[s])
    /\ UNCHANGED <<Others, store, rotations, loggedOut, nReq>>

(***************************************************************************)
(* POST /api/auth/refresh: refreshTokenController.refreshToken over       *)
(* refreshTokenService.refreshToken.                                       *)
(***************************************************************************)
\* isValidRefreshPayload: an object payload whose id is a string.
isValidRefreshPayload(token) == IsJwt(token)

\* refreshAfterCheck as it would be with jwt.verify moved in front of the
\* revocation check.
refreshAfterCheckVerifyFirst(slot, dbOk) ==
    LET v  == JwtVerify(slot.tok, env.refreshSecret, clock)
        s0 == [slot EXCEPT !.steps = Append(@, "verify")]
        s1 == [s0 EXCEPT !.steps = Append(@, "check"),
                         !.isInvalidated = isTokenInvalidated(slot.tok, dbOk),
                         !.dbErr = @ \/ ~dbOk]
    IN  IF v # "ok" THEN Fail(s0, UNAUTHORIZED, v)
        ELSE IF ~isValidRefreshPayload(slot.tok)
        THEN Fail(s0, UNAUTHORIZED, "Invalid refresh token payload structure")
        ELSE IF s1.isInvalidated
        THEN Fail(s1, UNAUTHORIZED, "Refresh token has been invalidated")
        ELSE [s1 EXCEPT !.pc = "r_user"]

\* From the answer of isTokenInvalidated to the call of user.findUnique.
refreshAfterCheck(slot, dbOk) ==
    LET s1 == [slot EXCEPT !.steps = Append(@, "check"),
                           !.isInvalidated = isTokenInvalidated(slot.tok, dbOk),
                           !.dbErr = @ \/ ~dbOk]
        v  == JwtVerify(slot.tok, env.refreshSecret, clock)
    IN  IF s1.isInvalidated
        THEN Fail(s1, UNAUTHORIZED, "Refresh token has been invalidated")
        ELSE IF v # "ok"
        THEN Fail([s1 EXCEPT !.steps = Append(@, "verify")], UNAUTHORIZED, v)
        ELSE IF ~isValidRefreshPayload(slot.tok)
        THEN Fail([s1 EXCEPT !.steps = Append(@, "verify")], UNAUTHORIZED,
                  "Invalid refresh token payload structure")
        ELSE [s1 EXCEPT !.steps = Append(@, "verify"), !.pc = "r_user"]

\* refreshAfterUser as it would be with the invalidateToken call left out.
refreshAfterUserSkipRevoke(slot, dbOk) ==
    LET s1 == [slot EXCEPT !.steps = Append(@, "user"), !.dbErr = @ \/ ~dbOk]
        id == slot.tok.id
    IN  IF ~dbOk
        THEN Fail(s1, UNAUTHORIZED, "Can't reach database server")
        ELSE IF ~UserExists(id)
        THEN Fail(s1, UNAUTHORIZED, "User not found")
        ELSE IF users[id] # "active"
        THEN Fail(s1, UNAUTHORIZED, "User account is inactive")
        ELSE [s1 EXCEPT !.pc = "r_issue",
                        !.user = [id |-> id, email |-> EmailOf(id), isActive |-> TRUE]]

\* refreshAfterUser as it would be with the isActive check left out.
refreshAfterUserNoActiveCheck(slot, dbOk) ==
    LET s1 == [slot EXCEPT !.steps = Append(@, "user"), !.dbErr = @ \/ ~dbOk]
        id == slot.tok.id
    IN  IF ~dbOk
        THEN Fail(s1, UNAUTHORIZED, "Can't reach database server")
        ELSE IF ~UserExists(id)
        THEN Fail(s1, UNAUTHORIZED, "User not found")
        ELSE [s1 EXCEPT !.pc = "r_revoke",
                        !.user = [id |-> id, email |-> EmailOf(id),
                                  isActive |-> (users[id] = "active")]]

\* From the answer of user.findUnique to the call of invalidateToken.
refreshAfterUser(slot, dbOk) ==
    LET s1 == [slot EXCEPT !.steps = Append(@, "user"), !.dbErr = @ \/ ~dbOk]
        id == slot.tok.id
    IN  IF ~dbOk
        THEN Fail(s1, UNAUTHORIZED, "Can't reach database server")
        ELSE IF ~UserExists(id)
        THEN Fail(s1, UNAUTHORIZED, "User not found")
        ELSE IF users[id] # "active"
        THEN Fail(s1, UNAUTHORIZED, "User account is inactive")
        ELSE [s1 EXCEPT !.pc = "r_revoke",
                        !.user = [id |-> id, email |-> EmailOf(id), isActive |-> TRUE]]

\* The awaited invalidateToken call.  Its result is dropped: whatever ok is,
\* the call goes on to issue.  (revoked keeps what the call answered.)
refreshAfterRevoke(slot, ok, dbOk) ==
    [slot EXCEPT !.steps = Append(@, "revoke"), !.dbErr = @ \/ ~dbOk,
                 !.revoked = ok, !.pc = "r_issue"]

\* generateAccessToken, generateRefreshToken and the success result.
refreshIssue(slot) ==
    [slot EXCEPT !.pc = "done", !.success = TRUE, !.status = OK,
                 !.steps = Append(@, "issue"),
                 !.token = generateAccessToken(slot.user.id, slot.user.email,
                                               slot.user.isActive, clock),
                 !.refreshToken = generateRefreshToken(slot.user.id, clock)]

\* Tokens a returned refreshToken call has exchanged, and tokens one has handed
\* out as the replacement (calls that met no database error).
Exchanged == {r.old : r \in {x \in rotations : ~x.dbErr}}
Replacements == {r.new : r \in {x \in rotations : ~x.dbErr}}

StartRefresh(s) ==
    /\ FreeSlot(s)
    /\ \E t \in Presentable :
          slots' = [slots EXCEPT ![s] =
              [IdleSlot EXCEPT !.op = "refresh", !.pc = "r_check", !.tok = t,
                               !.after = (t \in Exchanged),
                               !.fresh = (t \in Replacements)]]
    /\ nReq' = nReq + 1
    /\ UNCHANGED <<Others, store, issued, rotations, loggedOut>>

RefreshCheck(s) ==
    /\ slots[s].op = "refresh" /\ slots[s].pc = "r_check"
    /\ \E dbOk \in BOOLEAN : slots' = [slots EXCEPT ![s] = refreshAfterCheck(slots[s], dbOk)]
    /\ UNCHANGED <<Others, store, issued, rotations, loggedOut, nReq>>

RefreshUser(s) ==
    /\ slots[s].op = "refresh" /\ slots[s].pc = "r_user"
    /\ \E dbOk \in BOOLEAN : slots' = [slots EXCEPT ![s] = refreshAfterUser(slots[s], dbOk)]
    /\ UNCHANGED <<Others, store, issued, rotations, loggedOut, nReq>>

RefreshRevoke(s) ==
    /\ slots[s].op = "refresh" /\ slots[s].pc = "r_revoke"
    /\ \E dbOk \in BOOLEAN :
          /\ store' = invalidateTokenStore(slots[s].tok, slots[s].user.id, dbOk)
          /\ slots' = [slots EXCEPT ![s] =
                refreshAfterRevoke(slots[s],
                    invalidateTokenSuccess(slots[s].tok, slots[s].user.id, dbOk), dbOk)]
    /\ UNCHANGED <<Others, issued, rotations, loggedOut, nReq>>

RefreshIssue(s) ==
    /\ slots[s].op = "refresh" /\ slots[s].pc = "r_issue"
    /\ slots' = [slots EXCEPT ![s] = refreshIssue(slots[s])]
    /\ issued' = issued \cup Handed(slots'[s])
    /\ rotations' = IF slots'[s].success
                    THEN rotations \cup
                         {[old |-> slots[s].tok, new |-> slots'[s].refreshToken,
                           dbErr |-> slots[s].dbErr,
                           k |-> 1 + Cardinality({r \in rotations : r.old = slots[s].tok})]}
                    ELSE rotations
    /\ UNCHANGED <<Others, store, loggedOut, nReq>>

\* A login request that runs from validation to its response with no other
\* step in between; only a successful one changes anything (it hands out a
\* token pair).
Login ==
    /\ nReq < MaxRequests
    /\ \E e \in LoginEmails, p \in LoginPasswords :
          LET s0 == loginValidate([IdleSlot EXCEPT !.op = "login", !.email = e,
                                                   !.password = p])
              s1 == IF s0.pc = "li_find" THEN loginAfterFind(s0, TRUE) ELSE s0
              s2 == IF s1.pc = "li_compare" THEN loginAfterCompare(s1) ELSE s1
          IN  /\ s2.success
              /\ issued' = issued \cup Handed(s2)
    /\ nReq' = nReq + 1
    /\ UNCHANGED <<Others, store, slots, rotations, loggedOut>>

(***************************************************************************)
(* POST /api/auth/logout: jwtAuthMiddleware, then logoutController.logout.*)
(***************************************************************************)
Bearer(t) == <<Word("Bearer"), t>>
Headers == {Bearer(t) : t \in Presentable} \cup {NoHeader, Bearer(Word(""))}

Reject(slot, error) == Fail(slot, UNAUTHORIZED, error)

\* jwtAuthMiddleware up to the call of isTokenInvalidated.
gateBeforeLookup(slot) ==
    LET token == extractTokenFromHeader(slot.hdr)
        s1 == [slot EXCEPT !.tok = token]
    IN  IF NullOrEmpty(token)
        THEN Reject(s1, "Missing or invalid authorization token")
        ELSE IF ~verifyToken(token, clock)
        THEN Reject(s1, "Invalid or expired token")
        ELSE [s1 EXCEPT !.pc = "g_lookup", !.steps = <<"verify">>, !.at = clock]

\* logoutBeforeRevoke as it would be if the controller took the token from
\* another header than the gate does, one the request does not carry.
logoutBeforeRevokeOtherHeader(slot) ==
    LET token == extractTokenFromHeader(NoHeader)
    IN  IF NullOrEmpty(token)
        THEN Fail(slot, BAD_REQUEST, "No token provided")
        ELSE [slot EXCEPT !.pc = "l_revoke", !.tok = token]

\* logoutController.logout up to the call of invalidateToken.
logoutBeforeRevoke(slot) ==
    LET token == extractTokenFromHeader(slot.hdr)
    IN  IF NullOrEmpty(token)
        THEN Fail(slot, BAD_REQUEST, "No token provided")
        ELSE [slot EXCEPT !.pc = "l_revoke", !.tok = token]

\* gateAfterLookup as it would be if the gate looked the user up and turned
\* away a user who is not active now.
gateAfterLookupChecksUser(slot, dbOk) ==
    LET s1 == [slot EXCEPT !.isInvalidated = isTokenInvalidated(slot.tok, dbOk),
                           !.dbErr = ~dbOk, !.steps = Append(@, "check")]
    IN  IF s1.isInvalidated
        THEN Reject(s1, "Token has been invalidated")
        ELSE IF users[slot.tok.id] # "active"
        THEN Reject(s1, "User account is inactive")
        ELSE logoutBeforeRevoke(
                 [s1 EXCEPT !.reqUser = [id |-> slot.tok.id, email |-> slot.tok.email,
                                         isActive |-> slot.tok.isActive],
                            !.nextCalled = TRUE])

\* jwtAuthMiddleware from the answer of isTokenInvalidated on: 401, or the
\* identity attached and next(), which runs the controller.
gateAfterLookup(slot, dbOk) ==
    LET s1 == [slot EXCEPT !.isInvalidated = isTokenInvalidated(slot.tok, dbOk),
                           !.dbErr = ~dbOk, !.steps = Append(@, "check")]
    IN  IF s1.isInvalidated
        THEN Reject(s1, "Token has been invalidated")
        ELSE logoutBeforeRevoke(
                 [s1 EXCEPT !.reqUser = [id |-> slot.tok.id, email |-> slot.tok.email,
                                         isActive |-> slot.tok.isActive],
                            !.nextCalled = TRUE])

\* logoutController.logout from the answer of invalidateToken on.
logoutAfterRevoke(slot, ok) ==
    IF ~ok
    THEN Fail(slot, INTERNAL_SERVER_ERROR, "Failed to invalidate token")
    ELSE [slot EXCEPT !.pc = "done", !.success = TRUE, !.status = OK]

\* jwtAuthMiddleware on a request with header h, from its first line to its
\* decision: the request as the gate leaves it, with the 401 it has sent or
\* with the identity attached and next() called.
jwtAuthMiddleware(h, dbOk) ==
    LET s0 == gateBeforeLookup([IdleSlot EXCEPT !.op = "logout", !.hdr = h])
    IN  IF s0.pc = "g_lookup" THEN gateAfterLookup(s0, dbOk) ELSE s0

StartLogout(s) ==
    /\ FreeSlot(s)
    /\ \E h \in Headers :
          slots' = [slots EXCEPT ![s] =
              gateBeforeLookup([IdleSlot EXCEPT !.op = "logout", !.hdr = h,
                                  !.after = (extractTokenFromHeader(h) \in loggedOut)])]
    /\ nReq' = nReq + 1
    /\ UNCHANGED <<Others, store, issued, rotations, loggedOut>>

GateLookup(s) ==
    /\ slots[s].op = "logout" /\ slots[s].pc = "g_lookup"
    /\ \E dbOk \in BOOLEAN : slots' = [slots EXCEPT ![s] = gateAfterLookup(slots[s], dbOk)]
    /\ UNCHANGED <<Others, store, issued, rotations, loggedOut, nReq>>

LogoutRevoke(s) ==
    /\ slots[s].op = "logout" /\ slots[s].pc = "l_revoke"
    /\ \E dbOk \in BOOLEAN :
          /\ store' = invalidateTokenStore(slots[s].tok, slots[s].reqUser.id, dbOk)
          /\ slots' = [slots EXCEPT ![s] =
                logoutAfterRevoke(slots[s],
                    invalidateTokenSuccess(slots[s].tok, slots[s].reqUser.id, dbOk))]
    /\ loggedOut' = IF slots'[s].status = OK THEN loggedOut \cup {slots[s].tok}
                    ELSE loggedOut
    /\ UNCHANGED <<Others, issued, rotations, nReq>>

(***************************************************************************)
(* The user table: PUT /api/users/:id as ADMIN (isActive), DELETE         *)
(* /api/users/:id.                                                         *)
(***************************************************************************)
\* processAdminUpdate: findUserById, then updateUserById({isActive}).
processAdminUpdate(id, isActive) ==
    IF UserExists(id)
    THEN [users EXCEPT ![id] = IF isActive THEN "active" ELSE "inactive"]
    ELSE users

\* deleteUserByIdRepository.deleteById, one transaction: the rows left in
\* invalidated_tokens.
deleteByIdStore(id) ==
    IF UserExists(id) THEN {r \in store : r.userId # id} ELSE store

\* deleteUserByIdRepository.deleteById: the rows left in users.
deleteByIdUsers(id) ==
    IF UserExists(id) THEN [users EXCEPT ![id] = "deleted"] ELSE users

AdminUpdate ==
    /\ \E id \in UserIds, b \in BOOLEAN : users' = processAdminUpdate(id, b)
    /\ UNCHANGED <<env, proc, clock, janitor, store, slots, issued, rotations, loggedOut, nReq>>

DeleteUser ==
    /\ \E id \in UserIds :
          /\ users' = deleteByIdUsers(id)
          /\ store' = deleteByIdStore(id)
    /\ UNCHANGED <<env, proc, clock, janitor, slots, issued, rotations, loggedOut, nReq>>

(***************************************************************************)
(* The cleanup job's sweep, run between two steps of the requests.        *)
(***************************************************************************)
CleanupSweep ==
    /\ \E dbOk \in BOOLEAN : store' = cleanupExpiredTokens(clock, dbOk)
    /\ UNCHANGED <<env, proc, clock, users, janitor, slots, issued, rotations, loggedOut, nReq>>

(***************************************************************************)
(* setupTokenCleanupJob: the timer, and safeCleanup over performCleanup    *)
(* over cleanupExpiredTokens.  A sweep reads the clock when it is started  *)
(* (new Date() in the deleteMany arguments) and deletes when the database  *)
(* runs it.  Sweeps started in the same millisecond are one element of     *)
(* pending: their deleteMany calls are the same call.                      *)
(***************************************************************************)
Min(a, b) == IF a < b THEN a ELSE b

\* void safeCleanup(): a sweep is started with the clock as it is now.
startSweep(jan, now) ==
    [jan EXCEPT !.pending = @ \cup {now},
                !.started = Min(@ + 1, MaxTicks + 1)]

\* setupTokenCleanupJob(): setInterval, then one sweep at once.
setupTokenCleanupJob(jan, now) == startSweep([jan EXCEPT !.timer = "armed"], now)

\* The setInterval callback.
intervalCallback(jan, now) ==
    startSweep([jan EXCEPT !.fired = Min(@ + 1, MaxTicks)], now)

\* The function setupTokenCleanupJob returns: clearInterval.
stopJob(jan) == [jan EXCEPT !.timer = "cleared"]

\* safeCleanup as it would be with no catch anywhere: a failed deleteMany
\* rejects out of the job and takes the process, timer included, with it.
safeCleanupUncaught(jan, now, dbOk) ==
    [jan EXCEPT !.pending = @ \ {now},
                !.timer = IF dbOk THEN @ ELSE "off",
                !.rejected = @ \/ ~dbOk,
                !.last = [done |-> TRUE, now |-> now, ok |-> dbOk,
                          purged |-> {r.token : r \in store \ cleanupExpiredTokens(now, dbOk)}]]

\* safeCleanup, performCleanup: the sweep returns; cleanupExpiredTokens has
\* caught the database error (count 0), so nothing is thrown and the timer is
\* not touched.
safeCleanup(jan, now, dbOk) ==
    [jan EXCEPT !.pending = @ \ {now},
                !.last = [done |-> TRUE, now |-> now, ok |-> dbOk,
                          purged |-> {r.token : r \in store \ cleanupExpiredTokens(now, dbOk)}]]

JobSetup ==
    /\ janitor.timer = "off" /\ ~janitor.rejected
    /\ janitor' = setupTokenCleanupJob(janitor, clock)
    /\ UNCHANGED <<env, proc, clock, users, store, slots, issued, rotations, loggedOut, nReq>>

IntervalTick ==
    /\ janitor.timer = "armed"
    /\ Cardinality(janitor.pending) < MaxPending
    /\ janitor' = intervalCallback(janitor, clock)
    /\ UNCHANGED <<env, proc, clock, users, store, slots, issued, rotations, loggedOut, nReq>>

JobStop ==
    /\ janitor.timer = "armed"
    /\ janitor' = stopJob(janitor)
    /\ UNCHANGED <<env, proc, clock, users, store, slots, issued, rotations, loggedOut, nReq>>

\* The database runs the deleteMany of the sweep started at n.
SweepRun(n, dbOk) ==
    /\ n \in janitor.pending
    /\ store' = cleanupExpiredTokens(n, dbOk)
    /\ janitor' = safeCleanup(janitor, n, dbOk)
    /\ UNCHANGED <<env, proc, clock, users, slots, issued, rotations, loggedOut, nReq>>

Sweep == \E n \in Instants, dbOk \in BOOLEAN : SweepRun(n, dbOk)

(***************************************************************************)
(* tokenInvalidationService.invalidateToken called on its own: the decode *)
(* and the checks of the payload, then the insert.                        *)
(***************************************************************************)
\* An access token and a refresh token of u1 issued at second 0, and a string
\* that is no JWT.
RevokeTokens ==
    {AccessJwt("k-access", "u1", "u1@x.io", TRUE, 0, AccessTtlSec),
     RefreshJwt("k-refresh", "u1", 0, RefreshTtlSec)}
RevokeArgs == RevokeTokens \cup {Word("garbage")}

\* invalidateToken up to prisma.invalidatedToken.create.
invalidateTokenDecode(slot) ==
    IF ~JwtDecodable(slot.tok)
    THEN [slot EXCEPT !.pc = "done", !.success = FALSE]
    ELSE [slot EXCEPT !.pc = "i_insert"]

\* invalidateToken from the answer of create on: {success}, never a throw.
invalidateTokenReturn(slot, ok, dbOk) ==
    [slot EXCEPT !.pc = "done", !.success = ok, !.revoked = ok, !.dbErr = ~dbOk]

StartInvalidate(s) ==
    /\ FreeSlot(s)
    /\ \E t \in RevokeArgs, u \in UserIds :
          slots' = [slots EXCEPT ![s] =
              invalidateTokenDecode(
                  [IdleSlot EXCEPT !.op = "revoke", !.tok = t,
                                   !.user = [NoUser EXCEPT !.id = u],
                                   !.after = (t \in StoreTokens)])]
    /\ nReq' = nReq + 1
    /\ UNCHANGED <<Others, store, issued, rotations, loggedOut>>

InvalidateInsert(s) ==
    /\ slots[s].op = "revoke" /\ slots[s].pc = "i_insert"
    /\ \E dbOk \in BOOLEAN :
          /\ store' = invalidateTokenStore(slots[s].tok, slots[s].user.id, dbOk)
          /\ slots' = [slots EXCEPT ![s] =
                invalidateTokenReturn(slots[s],
                    invalidateTokenSuccess(slots[s].tok, slots[s].user.id, dbOk), dbOk)]
    /\ UNCHANGED <<Others, issued, rotations, loggedOut, nReq>>

(***************************************************************************)
(* Whole requests: a refresh or a logout that runs from its first line to *)
(* its response with no other step in between.                             *)
(***************************************************************************)
Refresh ==
    /\ nReq < MaxRequests
    /\ \E t \in Presentable, db1, db2, db3 \in BOOLEAN :
          LET s0 == [IdleSlot EXCEPT !.op = "refresh", !.pc = "r_check", !.tok = t]
              s1 == refreshAfterCheck(s0, db1)
              s2 == IF s1.pc = "r_user" THEN refreshAfterUser(s1, db2) ELSE s1
              s3 == IF s2.pc = "r_revoke"
                    THEN refreshAfterRevoke(s2, invalidateTokenSuccess(t, s2.user.id, db3), db3)
                    ELSE s2
              s4 == IF s3.pc = "r_issue" THEN refreshIssue(s3) ELSE s3
          IN  /\ store' = IF s2.pc = "r_revoke"
                          THEN invalidateTokenStore(t, s2.user.id, db3) ELSE store
              /\ issued' = issued \cup Handed(s4)
              /\ rotations' = IF s4.success
                              THEN rotations \cup
                                   {[old |-> t, new |-> s4.refreshToken, dbErr |-> s4.dbErr,
                                     k |-> 1 + Cardinality({r \in rotations : r.old = t})]}
                              ELSE rotations
              /\ (store' # store \/ s4.success)
    /\ nReq' = nReq + 1
    /\ UNCHANGED <<Others, slots, loggedOut>>

\* refreshTokenService.refreshToken(t) from its first line to its result,
\* every database call answering.
refreshTokenCall(t) ==
    LET s0 == [IdleSlot EXCEPT !.op = "refresh", !.pc = "r_check", !.tok = t]
        s1 == refreshAfterCheck(s0, TRUE)
        s2 == IF s1.pc = "r_user" THEN refreshAfterUser(s1, TRUE) ELSE s1
        s3 == IF s2.pc = "r_revoke"
              THEN refreshAfterRevoke(s2, invalidateTokenSuccess(t, s2.user.id, TRUE), TRUE)
              ELSE s2
    IN  IF s3.pc = "r_issue" THEN refreshIssue(s3) ELSE s3

Logout ==
    /\ nReq < MaxRequests
    /\ \E h \in Headers, db1, db2 \in BOOLEAN :
          LET s0 == gateBeforeLookup([IdleSlot EXCEPT !.op = "logout", !.hdr = h])
              s1 == IF s0.pc = "g_lookup" THEN gateAfterLookup(s0, db1) ELSE s0
              ok == invalidateTokenSuccess(s1.tok, s1.reqUser.id, db2)
          IN  /\ s1.pc = "l_revoke" /\ ok
              /\ store' = invalidateTokenStore(s1.tok, s1.reqUser.id, db2)
              /\ loggedOut' = loggedOut \cup {s1.tok}
    /\ nReq' = nReq + 1
    /\ UNCHANGED <<Others, slots, issued, rotations>>

\* The refresh requests step by step; every other request whole.
Next ==
    \/ Tick
    \/ Login
    \/ \E s \in Slots : StartRefresh(s)
    \/ \E s \in Slots : RefreshCheck(s)
    \/ \E s \in Slots : RefreshUser(s)
    \/ \E s \in Slots : RefreshRevoke(s)
    \/ \E s \in Slots : RefreshIssue(s)
    \/ Logout
    \/ AdminUpdate
    \/ DeleteUser
    \/ CleanupSweep

Spec == Init /\ [][Next]_vars

\* The requests through the gate step by step; every other request whole.
NextGate ==
    \/ Tick
    \/ Login
    \/ Refresh
    \/ \E s \in Slots : StartLogout(s)
    \/ \E s \in Slots : GateLookup(s)
    \/ \E s \in Slots : LogoutRevoke(s)
    \/ AdminUpdate
    \/ DeleteUser
    \/ CleanupSweep

SpecGate == Init /\ [][NextGate]_vars

\* The login requests step by step, against a user table that changes.
NextLogin ==
    \/ Tick
    \/ \E s \in Slots : StartLogin(s)
    \/ \E s \in Slots : LoginFind(s)
    \/ \E s \in Slots : LoginCompare(s)
    \/ Logout
    \/ AdminUpdate
    \/ DeleteUser
    \/ CleanupSweep

SpecLogin == Init /\ [][NextLogin]_vars

\* An invalidateToken call that runs from its first line to its return with
\* no other step in between; only a successful one changes anything.
Invalidate ==
    /\ \E t \in RevokeArgs, u \in UserIds :
          /\ invalidateTokenSuccess(t, u, TRUE)
          /\ store' = invalidateTokenStore(t, u, TRUE)
    /\ UNCHANGED <<Others, slots, issued, rotations, loggedOut, nReq>>

\* The revocation store on its own, with both users present.
InitStore ==
    /\ env = [secret |-> "k-access", refreshSecret |-> "k-refresh"]
    /\ clock = 0
    /\ users = [u \in UserIds |-> "active"]
    /\ store = {}
    /\ slots = [s \in Slots |-> IdleSlot]
    /\ janitor = JobOff
    /\ issued = {}
    /\ rotations = {}
    /\ loggedOut = {}
    /\ nReq = 0
    /\ proc = ProcOff

\* The invalidateToken calls step by step; every sweep whole.
NextStore ==
    \/ Tick
    \/ \E s \in Slots : StartInvalidate(s)
    \/ \E s \in Slots : InvalidateInsert(s)
    \/ CleanupSweep

SpecStore == InitStore /\ [][NextStore]_vars

\* The cleanup job step by step; every invalidateToken call whole.
NextJanitor ==
    \/ Tick
    \/ Invalidate
    \/ JobSetup
    \/ IntervalTick
    \/ JobStop
    \/ Sweep

SpecJanitor == Init /\ [][NextJanitor]_vars

\* The same, with the event loop's guarantees: an armed timer keeps firing
\* and a deleteMany that was sent returns.
SpecJanitorLive == SpecJanitor /\ WF_vars(IntervalTick) /\ WF_vars(Sweep)

(***************************************************************************)
(* config/env.ts envSchema: the configurations the validation accepts.    *)
(* JWT_SECRET is z.string().min(MIN_JWT_SECRET_LENGTH); REFRESH_TOKEN_-   *)
(* SECRET is z.string(): any string, of any length, equal to JWT_SECRET   *)
(* or not.                                                                 *)
(***************************************************************************)
MIN_JWT_SECRET_LENGTH == 32
\* Candidate values of JWT_SECRET and of REFRESH_TOKEN_SECRET.
JwtSecretStrings == {"k-access", "short"}
RefreshSecretStrings == {"k-refresh", "k-access", "short"}
\* String.prototype.length of the candidate secrets.
StringLength(t) == IF t = "short" THEN 5 ELSE 32

\* envSchema.parse succeeds on the two secrets.
envSchemaAccepts(cfg) == StringLength(cfg.secret) >= MIN_JWT_SECRET_LENGTH
EnvConfigs ==
    {cfg \in [secret : JwtSecretStrings, refreshSecret : RefreshSecretStrings] :
        envSchemaAccepts(cfg)}

\* The server started under any accepted configuration.
InitEnv ==
    /\ env \in EnvConfigs
    /\ clock = 0
    /\ users = [u \in UserIds |-> IF u = "u1" THEN "active" ELSE "absent"]
    /\ store = {}
    /\ slots = [s \in Slots |-> IdleSlot]
    /\ janitor = JobOff
    /\ issued = {}
    /\ rotations = {}
    /\ loggedOut = {}
    /\ nReq = 0
    /\ proc = ProcOff

\* Every request whole: login, refresh, and logout through the gate.
NextEnv ==
    \/ Tick
    \/ Login
    \/ Refresh
    \/ Logout

SpecEnv == InitEnv /\ [][NextEnv]_vars

(***************************************************************************)
(* token.utils extractTokenFromHeader on its own: one call per header.    *)
(* Every sequence of space-free strings is authHeader.split(' ') of       *)
(* exactly one header string (the strings joined by single spaces), so    *)
(* the headers are the sequences of up to MaxParts parts.                  *)
(***************************************************************************)
HeaderParts ==
    {Word("Bearer"), Word("bearer"), Word("BEARER"), Word("Basic"), Word(""),
     Word("garbage"), AccessJwt("k-access", "u1", "u1@x.io", TRUE, 0, AccessTtlSec)}
HeaderInputs == UNION {[1..n -> HeaderParts] : n \in 0..MaxParts}

InitHeader ==
    /\ env = [secret |-> "k-access", refreshSecret |-> "k-refresh"]
    /\ clock = 0
    /\ users = [u \in UserIds |-> IF u = "u1" THEN "active" ELSE "absent"]
    /\ store = {}
    /\ \E h \in HeaderInputs :
          slots = [s \in Slots |->
                     IF s = 1 THEN [IdleSlot EXCEPT !.op = "extract", !.pc = "x_call",
                                                    !.hdr = h]
                     ELSE IdleSlot]
    /\ janitor = JobOff
    /\ issued = {}
    /\ rotations = {}
    /\ loggedOut = {}
    /\ nReq = 0
    /\ proc = ProcOff

\* The call: the slot keeps what extractTokenFromHeader returned.
ExtractCall(s) ==
    /\ slots[s].op = "extract" /\ slots[s].pc = "x_call"
    /\ slots' = [slots EXCEPT ![s] =
          [slots[s] EXCEPT !.pc = "done",
                           !.tok = extractTokenFromHeader(slots[s].hdr)]]
    /\ UNCHANGED <<Others, store, issued, rotations, loggedOut, nReq>>

NextHeader == \E s \in Slots : ExtractCall(s)

SpecHeader == InitHeader /\ [][NextHeader]_vars

(***************************************************************************)
(* bootstrap and utils/process/graceful-shutdown.ts.  bootstrap calls     *)
(* createGracefulShutdown(server, cleanupFn) once and the function it     *)
(* returns twice, shutdownFactory('SIGTERM') and shutdownFactory('SIGINT'):*)
(* `let isShuttingDown = false` is inside that second function, so each   *)
(* of the two handlers has a flag of its own.                              *)
(***************************************************************************)
\* bootstrap: startHealthMonitoring, setupTokenCleanupJob, process.on twice,
\* server.listen.
bootstrap(p) == [p EXCEPT !.phase = "listening", !.health = "on"]

\* The handler shutdownFactory(signal) returns: the early return on its own
\* flag; else the flag, cleanupFn() and server.close(callback).
handler(p, signal) ==
    IF p.isShuttingDown[signal]
    THEN [p EXCEPT !.delivered = @ + 1, !.ignored = @ + 1]
    ELSE [p EXCEPT !.delivered = @ + 1,
                   !.isShuttingDown[signal] = TRUE,
                   !.cleanupCalls = @ + 1, !.health = "stopped",
                   !.closeCalls = @ + 1, !.closeCallbacks = @ + 1,
                   !.phase = IF @ = "listening" THEN "closing" ELSE @]

\* cleanupFn calls stopTokenCleanup() whenever the handler gets past its flag.
handlerJob(p, signal, jan) ==
    IF handler(p, signal).cleanupCalls > p.cleanupCalls THEN stopJob(jan) ELSE jan

\* The server's 'close' event: every callback handed to server.close runs
\* (performCleanup: closeHealthConnections, then the exit is scheduled).
closeCallback(p) == [p EXCEPT !.phase = "closed", !.closeCallbacks = 0]

\* process.exit(0) after SHUTDOWN_DELAY_MS, or process.kill(pid, 'SIGKILL').
processExit(p) == [p EXCEPT !.phase = "exited"]

Alive == proc.phase \in {"listening", "closing", "closed"}

Bootstrap ==
    /\ proc.phase = "off" /\ janitor.timer = "off"
    /\ proc' = bootstrap(proc)
    /\ janitor' = setupTokenCleanupJob(janitor, clock)
    /\ UNCHANGED <<env, clock, users, store, slots, issued, rotations, loggedOut, nReq>>

\* The operating system delivers SIGINT or SIGTERM to the live process.
SignalDelivery ==
    /\ Alive
    /\ proc.delivered < MaxSignals
    /\ \E signal \in Signals :
          /\ proc' = handler(proc, signal)
          /\ janitor' = handlerJob(proc, signal, janitor)
    /\ UNCHANGED <<env, clock, users, store, slots, issued, rotations, loggedOut, nReq>>

ServerClosed ==
    /\ Alive
    /\ proc.closeCallbacks > 0
    /\ proc' = closeCallback(proc)
    /\ UNCHANGED <<env, clock, users, store, slots, janitor, issued, rotations, loggedOut, nReq>>

ProcessExit ==
    /\ proc.phase = "closed"
    /\ proc' = processExit(proc)
    /\ UNCHANGED <<env, clock, users, store, slots, janitor, issued, rotations, loggedOut, nReq>>

\* The timer callback and the sweeps, while the process is alive.
JobTick == Alive /\ IntervalTick
JobSweep == Alive /\ Sweep

NextShutdown ==
    \/ Tick
    \/ Bootstrap
    \/ SignalDelivery
    \/ ServerClosed
    \/ ProcessExit
    \/ JobTick
    \/ JobSweep

SpecShutdown == Init /\ [][NextShutdown]_vars

(***************************************************************************)
(* GET /api/users: getAllUsersController.getAllUsers over                  *)
(* getAllUsersService.getAllUsers.  The service is the controller's       *)
(* environment: it resolves with a list of users or rejects.  sent counts *)
(* the res.status(..).json(..) calls; threw: the handler's promise         *)
(* rejected.                                                               *)
(***************************************************************************)
UserLists ==
    {l \in UNION {[1..n -> UserIds] : n \in 0..Cardinality(UserIds)} :
        \A i, j \in DOMAIN l : i # j => l[i] # l[j]}
ServiceOutcomes ==
    {[NoOutcome EXCEPT !.ok = TRUE, !.users = l] : l \in UserLists}
    \cup {[NoOutcome EXCEPT !.isError = b, !.text = t] :
            b \in BOOLEAN, t \in {"Can't reach database server", ""}}

\* error instanceof Error ? error : new Error(String(error)), then .message
ErrorMessage(outcome) == outcome.text

\* The try block after the await: 200 {success, data, count}.
getAllUsersThen(slot, list) ==
    [slot EXCEPT !.pc = "done", !.sent = @ + 1, !.status = OK, !.success = TRUE,
                 !.data = list, !.count = Len(list)]

\* The catch block as it would be if it logged and threw the error on.
getAllUsersCatchRethrow(slot, outcome) ==
    [slot EXCEPT !.pc = "done", !.success = FALSE, !.threw = TRUE]

\* The catch block: 500 {success: false, data: [], count: 0, error}.
getAllUsersCatch(slot, outcome) ==
    [slot EXCEPT !.pc = "done", !.sent = @ + 1, !.status = INTERNAL_SERVER_ERROR,
                 !.success = FALSE, !.data = <<>>, !.count = 0,
                 !.error = IF env.isProduction THEN "Internal server error"
                           ELSE "Failed to fetch users: " \o ErrorMessage(outcome)]

\* The controller from the settling of the service's promise on.
getAllUsersSettled(slot, outcome) ==
    IF outcome.ok
    THEN getAllUsersThen([slot EXCEPT !.outcome = outcome], outcome.users)
    ELSE getAllUsersCatch([slot EXCEPT !.outcome = outcome], outcome)

InitUsers ==
    /\ \E b \in BOOLEAN :
          env = [secret |-> "k-access", refreshSecret |-> "k-refresh", isProduction |-> b]
    /\ clock = 0
    /\ users = [u \in UserIds |-> "active"]
    /\ store = {}
    /\ slots = [s \in Slots |-> IdleSlot]
    /\ janitor = JobOff
    /\ issued = {}
    /\ rotations = {}
    /\ loggedOut = {}
    /\ nReq = 0
    /\ proc = ProcOff

\* The controller up to `await getAllUsersService.getAllUsers()`.
StartGetAllUsers(s) ==
    /\ FreeSlot(s)
    /\ slots' = [slots EXCEPT ![s] = [IdleSlot EXCEPT !.op = "getAllUsers", !.pc = "u_await"]]
    /\ nReq' = nReq + 1
    /\ UNCHANGED <<Others, store, issued, rotations, loggedOut>>

\* The service's promise settles and the controller runs to its end.
GetAllUsersSettle(s) ==
    /\ slots[s].op = "getAllUsers" /\ slots[s].pc = "u_await"
    /\ \E outcome \in ServiceOutcomes :
          slots' = [slots EXCEPT ![s] = getAllUsersSettled(slots[s], outcome)]
    /\ UNCHANGED <<Others, store, issued, rotations, loggedOut, nReq>>

NextUsers ==
    \/ \E s \in Slots : StartGetAllUsers(s)
    \/ \E s \in Slots : GetAllUsersSettle(s)

SpecUsers == InitUsers /\ [][NextUsers]_vars

\* The requests through the gate step by step, against users that are being
\* activated and deactivated; logins whole.
NextGateUsers ==
    \/ Tick
    \/ Login
    \/ \E s \in Slots : StartLogout(s)
    \/ \E s \in Slots : GateLookup(s)
    \/ \E s \in Slots : LogoutRevoke(s)
    \/ AdminUpdate

SpecGateUsers == Init /\ [][NextGateUsers]_vars

(***************************************************************************)
(* The claims.                                                             *)
(***************************************************************************)
Did(slot, step) == \E i \in 1..Len(slot.steps) : slot.steps[i] = step
Before(slot, a, b) ==
    \E i, j \in 1..Len(slot.steps) : i < j /\ slot.steps[i] = a /\ slot.steps[j] = b
NoTokens(slot) == slot.token = Null /\ slot.refreshToken = Null
Identity(t) == [id |-> t.id, email |-> t.email, isActive |-> t.isActive]

\* The replacement token t has not been presented by any call that got as far
\* as exchanging it (a rotation within the second t was issued in gives back
\* t itself: that rotation is the one that produced t, not a later use of it).
Unused(t) == \A r \in rotations : r.old = t => (r.new = t /\ r.k = 1)
NoOtherCall(s) ==
    \A r \in Slots \ {s} : ~(slots[r].op = "refresh" /\ slots[r].tok = slots[s].tok)

\* C1: single-use rotation, sequential case.  A refreshToken call that starts
\* after a call for the same token R1 has returned success fails (as
\* invalidated, or because R1 has expired or its user is gone) and returns no
\* token; a call for the replacement R2 that nothing else has used succeeds
\* unless R2 has expired or the user is gone or inactive.  Calls that met a
\* database error are left out.
C1_SingleUseSequential ==
    \A s \in Slots :
        LET sl == slots[s]
        IN  (sl.op = "refresh" /\ sl.pc = "done" /\ ~sl.dbErr) =>
              /\ sl.after =>
                    /\ ~sl.success
                    /\ NoTokens(sl)
                    /\ sl.error \in {"Refresh token has been invalidated", "jwt expired",
                                     "User not found", "User account is inactive"}
              /\ ( /\ sl.fresh
                   /\ Unused(sl.tok)
                   /\ NoOtherCall(s)
                   /\ sl.error \notin {"jwt expired", "User not found",
                                       "User account is inactive"} )
                 => sl.success

\* C2: single-use rotation under concurrency.  Of the refreshToken calls that
\* present one token (and meet no database error), at most one returns success.
C2_AtMostOneSuccess ==
    \A t \in Exchanged : Cardinality({r \in rotations : r.old = t /\ ~r.dbErr}) <= 1

\* C3: the gate calls next() and attaches {id, email, isActive} only for a
\* non-empty extracted token that verified against the access secret (signature
\* and expiry, at the time of the check) and whose revocation lookup answered
\* false; otherwise it answers 401, attaches nothing and never calls next().
GateDecided(slot) == slot.op = "logout" /\ slot.pc \in {"l_revoke", "done"}
C3_GateAdmitsOnlyVerified ==
    \A s \in Slots :
        LET sl == slots[s]
        IN  GateDecided(sl) =>
              /\ sl.nextCalled =>
                    /\ sl.tok = extractTokenFromHeader(sl.hdr)
                    /\ ~NullOrEmpty(sl.tok)
                    /\ JwtVerify(sl.tok, env.secret, sl.at) = "ok"
                    /\ Did(sl, "check") /\ ~sl.isInvalidated
                    /\ sl.reqUser = Identity(sl.tok)
                    /\ sl.status # UNAUTHORIZED
              /\ ~sl.nextCalled =>
                    /\ sl.pc = "done"
                    /\ sl.status = UNAUTHORIZED
                    /\ sl.reqUser = NoUser
C3_Witness ==
    \E s, r \in Slots :
        /\ GateDecided(slots[s]) /\ slots[s].nextCalled /\ slots[s].reqUser.id = "u1"
        /\ GateDecided(slots[r]) /\ ~slots[r].nextCalled
        /\ slots[r].error = "Token has been invalidated"

\* C4: once a logout of access token T has answered 200, every gate check of
\* T that starts later (and whose revocation lookup reaches the database) is
\* rejected.
C4_LoggedOutStaysRejected ==
    \A s \in Slots :
        LET sl == slots[s]
        IN  (sl.op = "logout" /\ sl.after /\ ~sl.dbErr) => ~sl.nextCalled

\* C5: revocation writes are fail-closed: a refreshToken call returns success
\* only if its invalidateToken call answered success.
C5_RefreshFailClosed ==
    \A s \in Slots :
        (slots[s].op = "refresh" /\ slots[s].success) => slots[s].revoked

\* C6: when the revocation lookup fails, isTokenInvalidated answers false and
\* the gate admits the token that verified.
C6_FailOpen ==
    \A s \in Slots :
        LET sl == slots[s]
        IN  (sl.op = "logout" /\ Did(sl, "check") /\ sl.dbErr) =>
              /\ ~sl.isInvalidated
              /\ sl.nextCalled
              /\ sl.status # UNAUTHORIZED
              /\ sl.reqUser = Identity(sl.tok)
C6_Witness ==
    \E s \in Slots :
        /\ slots[s].op = "logout" /\ Did(slots[s], "check") /\ slots[s].dbErr
        /\ slots[s].nextCalled
        /\ slots[s].tok \in StoreTokens

\* C7: in every refreshToken call the invalidateToken call has returned before
\* a replacement token is generated; no call holds a replacement token without
\* having made its revoke step first.
C7_RevokeBeforeIssue ==
    \A s \in Slots :
        LET sl == slots[s]
        IN  (sl.op = "refresh" /\ (Did(sl, "issue") \/ ~NoTokens(sl))) =>
              /\ Before(sl, "revoke", "issue")
              /\ sl.steps = <<"check", "verify", "user", "revoke", "issue">>
C7_Witness ==
    \E s \in Slots :
        /\ slots[s].op = "refresh" /\ slots[s].success
        /\ slots[s].refreshToken # Null
        /\ slots[s].tok \in StoreTokens

\* C8 (as amended): a refresh whose user lookup finds no row fails with 'User
\* not found', one whose lookup finds isActive = false fails with 'User account
\* is inactive'; that step issues no token and leaves the store unchanged.
UserStepOf(s) ==
    /\ slots[s].op = "refresh" /\ slots[s].pc = "r_user"
    /\ slots'[s] # slots[s]
C8_InactiveAtLookupFails ==
    [][\A s \in Slots :
          (UserStepOf(s) /\ users[slots[s].tok.id] # "active") =>
             /\ slots'[s].pc = "done"
             /\ ~slots'[s].success
             /\ NoTokens(slots'[s])
             /\ ~Did(slots'[s], "revoke")
             /\ store' = store
             /\ issued' = issued
             /\ ~slots'[s].dbErr =>
                    slots'[s].error = IF UserExists(slots[s].tok.id)
                                      THEN "User account is inactive"
                                      ELSE "User not found"]_vars
C8_Witness ==
    \E s \in Slots :
        /\ slots[s].op = "refresh" /\ slots[s].pc = "done"
        /\ slots[s].error = "User account is inactive"
        /\ slots[s].tok \in issued
        /\ users[slots[s].tok.id] = "inactive"

\* C8 (as claimed): a user deactivated at any time obtains no new token pair:
\* whenever a refreshToken call hands out a pair, its user is active then.
C8_NoPairForDeactivated ==
    [][\A s \in Slots :
          (slots'[s].op = "refresh" /\ slots'[s].success /\ ~slots[s].success) =>
             users[slots'[s].tok.id] = "active"]_vars

\* C9: a login call that fails returns no token and hands none out, and no
\* step of a login call, failed or successful, changes the revocation store.
LoginStepOf(s) == slots'[s].op = "login" /\ slots'[s] # slots[s]
C9_FailedLoginNoTokens ==
    /\ [](\A s \in Slots :
            (slots[s].op = "login" /\ slots[s].pc = "done" /\ ~slots[s].success) =>
               NoTokens(slots[s]))
    /\ [][\A s \in Slots :
            LoginStepOf(s) =>
               /\ store' = store
               /\ ~slots'[s].success => issued' = issued]_vars
C9_Witness ==
    \E s \in Slots :
        /\ slots[s].op = "login" /\ slots[s].pc = "done"
        /\ slots[s].error = "Current password is incorrect"
        /\ store # {}

\* C10: login succeeds only after, in order, the input validated, an active
\* user with the normalised email was found and the password matched that
\* user's digest; a lookup that finds no active user ends the call with 'User
\* not found' and no tokens, whatever the password.
ActiveWithEmail(e) == \E u \in UserIds : EmailOf(u) = e /\ users[u] = "active"
C10_LoginOnlyForActiveUser ==
    /\ [](\A s \in Slots :
            LET sl == slots[s]
            IN  (sl.op = "login" /\ sl.success) =>
                  /\ IsEmail(sl.email)
                  /\ sl.user.id \in UserIds
                  /\ EmailOf(sl.user.id) = sl.email
                  /\ sl.user.isActive
                  /\ comparePassword(sl.password, DigestOf(sl.user.id))
                  /\ sl.steps = <<"validate", "find", "issue">>
                  /\ sl.token.id = sl.user.id /\ sl.refreshToken.id = sl.user.id)
    /\ [][\A s \in Slots :
            (slots[s].op = "login" /\ slots[s].pc = "li_find" /\ slots'[s] # slots[s]
             /\ ~ActiveWithEmail(slots[s].email)) =>
               /\ slots'[s].pc = "done"
               /\ ~slots'[s].success
               /\ NoTokens(slots'[s])
               /\ ~slots'[s].dbErr => slots'[s].error = "User not found"]_vars
C10_Witness ==
    \E s \in Slots :
        /\ slots[s].op = "login" /\ slots[s].pc = "done"
        /\ slots[s].error = "User not found"
        /\ slots[s].email = "u1@x.io" /\ slots[s].password = "pw1"
        /\ users["u1"] = "inactive"

\* C11: revocation idempotence.  An invalidateToken call whose insert finds a
\* record for its token already there (whatever userId it passes) returns
\* {success: false} without throwing, leaves the store exactly as it was, and
\* the token is still invalidated afterwards.
InsertStepOf(s) ==
    /\ slots[s].op = "revoke" /\ slots[s].pc = "i_insert"
    /\ slots'[s] # slots[s]
C11_RevokeIdempotent ==
    [][\A s \in Slots :
          (InsertStepOf(s) /\ slots[s].tok \in StoreTokens) =>
             /\ slots'[s].pc = "done"
             /\ ~slots'[s].success
             /\ store' = store
             /\ slots[s].tok \in {r.token : r \in store'}]_vars
C11_Witness ==
    \E s \in Slots :
        /\ slots[s].op = "revoke" /\ slots[s].pc = "done"
        /\ slots[s].after /\ ~slots[s].success /\ ~slots[s].dbErr
        /\ \E r \in store : r.token = slots[s].tok /\ r.userId # slots[s].user.id
        /\ UserExists(slots[s].user.id)

\* C12: two logout requests with the same access token that have both passed
\* the gate both answer 200: the one whose insert finds the record of the
\* other already there reports no error.
C12_ConcurrentLogoutBothSucceed ==
    [][\A s \in Slots :
          ( /\ slots[s].op = "logout" /\ slots[s].pc = "l_revoke"
            /\ slots'[s].pc = "done"
            /\ ~slots[s].dbErr
            /\ slots[s].tok \in StoreTokens
            /\ \E r \in Slots \ {s} :
                  /\ slots[r].op = "logout" /\ slots[r].tok = slots[s].tok
                  /\ slots[r].nextCalled /\ slots[r].status = OK )
          => slots'[s].status = OK]_vars

\* C13: the store holds at most one record per token, and no step replaces a
\* record by another one for the same token: the record of the first
\* successful insert keeps its userId, invalidatedAt and expiresAt.
C13_OneRecordPerToken ==
    /\ [](\A r, q \in store : r.token = q.token => r = q)
    /\ [][\A r \in store : \A q \in store' : q.token = r.token => q = r]_vars
C13_Witness ==
    \E s, r \in Slots :
        /\ slots[s].op = "revoke" /\ slots[r].op = "revoke"
        /\ slots[s].pc = "done" /\ slots[r].pc = "done"
        /\ slots[s].tok = slots[r].tok
        /\ ~slots[s].after /\ ~slots[r].after
        /\ slots[s].success
        /\ ~slots[r].success /\ ~slots[r].dbErr
        /\ slots[r].user.id # slots[s].user.id
        /\ UserExists(slots[r].user.id)

\* C14: janitor safety.  The sweep that read clock value n deletes only
\* records with expiresAt < n; every record with expiresAt >= n that is in the
\* store when its deleteMany runs, however it got there, is still there
\* afterwards, and the sweep adds nothing.
C14_SweepDeletesOnlyExpired ==
    [][\A n \in janitor.pending \ janitor'.pending :
          /\ \A r \in store \ store' : r.expiresAt < n
          /\ \A r \in store : r.expiresAt >= n => r \in store'
          /\ store' \subseteq store]_vars
C14_Witness ==
    /\ janitor.last.done /\ janitor.last.ok
    /\ janitor.last.purged # {}
    /\ \E r \in store : r.expiresAt = janitor.last.now /\ r.invalidatedAt < janitor.last.now

\* C15 (as claimed): while the job's timer is armed, every record whose
\* expiresAt has passed is eventually removed.
Expired(t) == t \in StoreTokens /\ t.exp * UNIX_TIMESTAMP < clock
SweepSucceeds == \E n \in Instants : SweepRun(n, TRUE)
SweepStepOf == janitor'.pending # janitor.pending /\ janitor'.pending \subseteq janitor.pending
C16_JobSurvivesFailedSweep ==
    /\ [](janitor.timer # "off" => janitor.started = janitor.fired + 1)
    /\ [](~janitor.rejected)
    /\ [][(janitor.timer = "off" /\ janitor'.timer = "armed") =>
             clock \in janitor'.pending]_vars
    /\ [][janitor'.fired # janitor.fired =>
             (janitor.timer = "armed" /\ clock \in janitor'.pending)]_vars
    /\ [][SweepStepOf =>
             /\ janitor'.timer = janitor.timer
             /\ janitor'.fired = janitor.fired
             /\ janitor'.started = janitor.started]_vars
C16_Witness ==
    /\ janitor.timer = "armed" /\ janitor.fired >= 1
    /\ janitor.last.done /\ ~janitor.last.ok
    /\ \E n \in janitor.pending : n > janitor.last.now

\* C17: no step removes a revocation record whose expiresAt is not yet past:
\* records leave the store only through the cleanup sweep.
C17_OnlyJanitorRemoves ==
    [][\A r \in store \ store' : r.expiresAt < clock]_vars

\* C18: uniform gate rejection.  Any two requests the gate rejects get the
\* same status and the same error text, whatever the cause.
GateRejected(slot) == slot.op = "logout" /\ slot.pc = "done" /\ ~slot.nextCalled
C18_UniformGateRejection ==
    \A s, r \in Slots :
        (GateRejected(slots[s]) /\ GateRejected(slots[r])) =>
            /\ slots[s].status = slots[r].status
            /\ slots[s].error = slots[r].error

\* C19: any two refresh calls that fail at jwt.verify (token malformed, bad
\* signature or expired) return the same status and the same error text.
VerifyFailed(slot) ==
    /\ slot.op = "refresh" /\ slot.pc = "done" /\ ~slot.success
    /\ slot.steps = <<"check", "verify">>
C19_UniformVerifyFailure ==
    \A s, r \in Slots :
        (VerifyFailed(slots[s]) /\ VerifyFailed(slots[r])) =>
            /\ slots[s].status = slots[r].status
            /\ slots[s].error = slots[r].error

\* C20: login enumeration hardening.  Any two login calls with well-formed
\* input that fail (no active user with the email, or wrong password; the
\* database answering) return the same status and the same error text.
LoginRejected(slot) ==
    /\ slot.op = "login" /\ slot.pc = "done" /\ ~slot.success
    /\ IsEmail(slot.email) /\ ~slot.dbErr
C20_UniformLoginFailure ==
    \A s, r \in Slots :
        (LoginRejected(slots[s]) /\ LoginRejected(slots[r])) =>
            /\ slots[s].status = slots[r].status
            /\ slots[s].error = slots[r].error

\* C21: token-class separation.  Under every configuration the environment
\* validation accepts, the gate admits no token made by generateRefreshToken
\* and no refreshToken call succeeds on a token made by generateAccessToken.
C21_TokenClassSeparation ==
    /\ \A t \in issued, dbOk \in BOOLEAN :
          t.kind = "refresh" => ~jwtAuthMiddleware(Bearer(t), dbOk).nextCalled
    /\ \A t \in loggedOut : t.kind # "refresh"
    /\ \A r \in rotations : r.old.kind # "access"


\* C22: extractTokenFromHeader returns the token of '<scheme> <token>' exactly
\* when the scheme is 'bearer' in any case, returns the header itself when it
\* is a single non-empty word, and returns null for every other header: the
\* missing and the empty one, a scheme with an empty token ('Bearer '), a
\* scheme that is not bearer, the bare word 'Bearer', and more than one space.
IsBearer(part) == part.kind = "word" /\ ToLowerCase(part.text) = "bearer"
ExpectedToken(h) ==
    IF Len(h) = 2 /\ IsBearer(h[1]) /\ h[2] # Word("") THEN h[2]
    ELSE IF Len(h) = 1 /\ h[1] # Word("") /\ ~IsBearer(h[1]) THEN h[1]
    ELSE Null
C22_ExtractTokenFromHeader ==
    \A s \in Slots :
        (slots[s].op = "extract" /\ slots[s].pc = "done") =>
            slots[s].tok = ExpectedToken(slots[s].hdr)


\* C23: graceful shutdown runs once.  Whatever SIGINT and SIGTERM deliveries
\* reach the handlers bootstrap registered, cleanupFn and server.close are
\* each called at most once, and every signal after the first is ignored.
C23_ShutdownRunsOnce ==
    /\ proc.cleanupCalls <= 1
    /\ proc.closeCalls <= 1
    /\ proc.delivered >= 1 => proc.ignored = proc.delivered - 1


\* C24: getAllUsers sends exactly one response whatever the service call
\* settles with, and never throws: 200 {success: true, data: users, count:
\* number of users} when it resolves (count 0 for the empty list), 500
\* {success: false, data: [], count: 0, error: a string} when it rejects; no
\* response is sent while the service call is pending.
C24_ExactlyOneResponse ==
    \A s \in Slots :
        LET sl == slots[s]
        IN  sl.op = "getAllUsers" =>
              /\ ~sl.threw
              /\ sl.pc = "u_await" => sl.sent = 0
              /\ sl.pc = "done" =>
                    /\ sl.sent = 1
                    /\ sl.outcome.ok =>
                          /\ sl.status = OK /\ sl.success
                          /\ sl.data = sl.outcome.users
                          /\ sl.count = Len(sl.outcome.users)
                          /\ sl.error = ""
                    /\ ~sl.outcome.ok =>
                          /\ sl.status = INTERNAL_SERVER_ERROR /\ ~sl.success
                          /\ sl.data = <<>> /\ sl.count = 0
                          /\ sl.error # ""
C24_Witness ==
    \E s, r \in Slots :
        /\ slots[s].op = "getAllUsers" /\ slots[s].pc = "done"
        /\ slots[s].outcome.ok /\ slots[s].outcome.users = <<>> /\ slots[s].count = 0
        /\ slots[r].op = "getAllUsers" /\ slots[r].pc = "done"
        /\ ~slots[r].outcome.ok /\ ~slots[r].outcome.isError
        /\ slots[r].status = INTERNAL_SERVER_ERROR /\ slots[r].sent = 1


\* C25: purging never re-admits a token.  Every record a sweep deletes belongs
\* to a token that fails verification as expired at that moment, so no sweep
\* turns a token the gate or refreshToken would reject into one they accept.
GateAccepts(t, rows) == verifyToken(t, clock) /\ t \notin {r.token : r \in rows}
RefreshAccepts(t, rows) ==
    /\ JwtVerify(t, env.refreshSecret, clock) = "ok"
    /\ t \notin {r.token : r \in rows}
C25_PurgeNeverReadmits ==
    [][SweepStepOf =>
          /\ \A r \in store \ store' :
                /\ r.expiresAt = r.token.exp * UNIX_TIMESTAMP
                /\ JwtVerify(r.token, r.token.sig, clock) = "jwt expired"
          /\ \A t \in RevokeArgs :
                /\ GateAccepts(t, store') => GateAccepts(t, store)
                /\ RefreshAccepts(t, store') => RefreshAccepts(t, store)]_vars
C25_Witness ==
    /\ janitor.last.done
    /\ \E t \in janitor.last.purged :
          /\ t.kind = "refresh"
          /\ t \notin StoreTokens
          /\ JwtVerify(t, env.refreshSecret, clock) = "jwt expired"
          /\ ~RefreshAccepts(t, store)


\* C26: within one refreshToken call the steps are, in this order and each at
\* most once, revocation check, verification, user lookup with the active
\* check, revoke of the old token, issuance; a call that fails stops at the
\* step that failed.  A revoked token is answered 'invalidated' without being
\* verified, expired or not; a token that fails verification causes no user
\* lookup, no write to the store and no issuance.
RefreshOrder == <<"check", "verify", "user", "revoke", "issue">>
IsPrefix(a, b) == Len(a) <= Len(b) /\ \A i \in 1..Len(a) : a[i] = b[i]
VerifyErrors ==
    {"jwt malformed", "invalid signature", "jwt expired",
     "Invalid refresh token payload structure"}
UserErrors == {"User not found", "User account is inactive", "Can't reach database server"}
CheckStepOf(s) ==
    /\ slots[s].op = "refresh" /\ slots[s].pc = "r_check"
    /\ slots'[s] # slots[s]
C26_FixedStepOrder ==
    /\ [](\A s \in Slots :
            LET sl == slots[s]
            IN  sl.op = "refresh" =>
                  /\ IsPrefix(sl.steps, RefreshOrder)
                  /\ sl.success => sl.steps = RefreshOrder
                  /\ (sl.pc = "done" /\ ~sl.success) =>
                        /\ NoTokens(sl)
                        /\ sl.error = "Refresh token has been invalidated"
                              => sl.steps = <<"check">>
                        /\ sl.error \in VerifyErrors => sl.steps = <<"check", "verify">>
                        /\ sl.error \in UserErrors
                              => sl.steps = <<"check", "verify", "user">>
                        /\ sl.error \in {"Refresh token has been invalidated"}
                                          \cup VerifyErrors \cup UserErrors)
    /\ [][\A s \in Slots :
            CheckStepOf(s) =>
               /\ store' = store
               /\ issued' = issued
               /\ (slots[s].tok \in StoreTokens /\ ~slots'[s].dbErr) =>
                     /\ slots'[s].pc = "done"
                     /\ slots'[s].error = "Refresh token has been invalidated"
                     /\ slots'[s].steps = <<"check">>
               /\ JwtVerify(slots[s].tok, env.refreshSecret, clock) # "ok" =>
                     /\ slots'[s].pc = "done"
                     /\ ~slots'[s].success
                     /\ ~Did(slots'[s], "user")]_vars
C26_Witness ==
    \E s \in Slots :
        /\ slots[s].op = "refresh" /\ slots[s].pc = "done"
        /\ slots[s].error = "Refresh token has been invalidated"
        /\ slots[s].steps = <<"check">>
        /\ JwtVerify(slots[s].tok, env.refreshSecret, clock) = "jwt expired"


\* C27: on every successful refreshToken call the refresh token returned is a
\* different string from the one presented and has no revocation record when
\* it is returned, also when the call runs within the clock second in which
\* the presented token was issued.
IssueStepOf(s) ==
    /\ slots[s].op = "refresh" /\ slots[s].pc = "r_issue"
    /\ slots'[s].pc = "done" /\ slots'[s].success
C27_ReplacementIsFresh ==
    [][\A s \in Slots :
          IssueStepOf(s) =>
             /\ slots'[s].refreshToken # slots[s].tok
             /\ slots'[s].refreshToken \notin {r.token : r \in store'}]_vars


\* C28: logout revokes only the access token of the Authorization header: its
\* revoke step adds at most the record of that token and changes no other
\* record.  The refresh token issued together with that access token gets no
\* record from it, so a refreshToken call with it that would have succeeded
\* before the logout still succeeds after it, and after a successful logout
\* such a call succeeds whenever the user is active and the refresh token is
\* unexpired and was not revoked by a rotation.
LogoutStepOf(s) ==
    /\ slots[s].op = "logout" /\ slots[s].pc = "l_revoke"
    /\ slots'[s].pc = "done"
C28_LogoutRevokesOnlyAccessToken ==
    /\ [][\A s \in Slots :
            LogoutStepOf(s) =>
               /\ store \subseteq store'
               /\ store' \ store \subseteq {Row(slots[s].tok, slots[s].reqUser.id, clock)}
               /\ slots'[s].status = OK => slots[s].tok \in {r.token : r \in store'}
               /\ PairOf(slots[s].tok) # slots[s].tok
               /\ refreshTokenCall(PairOf(slots[s].tok)).success
                     => (refreshTokenCall(PairOf(slots[s].tok)).success)']_vars
    /\ [](\A a \in loggedOut :
            ( /\ users[a.id] = "active"
              /\ NowSec(clock) < PairOf(a).exp
              /\ PairOf(a) \notin StoreTokens )
            => /\ refreshTokenCall(PairOf(a)).success
               /\ refreshTokenCall(PairOf(a)).refreshToken.id = a.id)
C28_Witness ==
    \E s \in Slots :
        /\ slots[s].op = "logout" /\ slots[s].pc = "done" /\ slots[s].status = OK
        /\ slots[s].tok \in StoreTokens
        /\ PairOf(slots[s].tok) \in issued
        /\ PairOf(slots[s].tok) \notin StoreTokens
        /\ refreshTokenCall(PairOf(slots[s].tok)).success


\* C29: the gate's decision and the identity it attaches depend on the token,
\* the clock and the revocation store only.  In two states that differ only in
\* the user rows (the states before and after an update of a user) the gate
\* gives the same result for every header; an unexpired, unrevoked access
\* token is admitted with the isActive value it was issued with, also when its
\* user has been deactivated since.
C29_GateIgnoresUserTable ==
    /\ [][(users' # users /\ store' = store /\ clock' = clock /\ issued' = issued) =>
             \A h \in Headers, dbOk \in BOOLEAN :
                 (jwtAuthMiddleware(h, dbOk))' = jwtAuthMiddleware(h, dbOk)]_vars
    /\ [](\A a \in issued :
            (verifyToken(a, clock) /\ a \notin StoreTokens) =>
               LET req == jwtAuthMiddleware(Bearer(a), TRUE)
               IN  req.nextCalled /\ req.reqUser = Identity(a))
    /\ [](\A s \in Slots :
            (GateDecided(slots[s]) /\ slots[s].nextCalled) =>
               slots[s].reqUser.isActive = slots[s].tok.isActive)
C29_Witness ==
    \E s \in Slots :
        /\ GateDecided(slots[s]) /\ slots[s].nextCalled
        /\ users[slots[s].tok.id] = "inactive"
        /\ slots[s].reqUser.isActive
        /\ slots[s].at = clock
        /\ jwtAuthMiddleware(slots[s].hdr, TRUE).nextCalled


\* C30: behind the gate the 400 'No token provided' branch of logout is never
\* taken: gate and controller extract the token from the same header with the
\* same function.  Every response of the logout controller is 200 or 500, and
\* the token it revokes is the token the gate verified.
C30_LogoutBehindGate ==
    /\ [](\A s \in Slots :
            LET sl == slots[s]
            IN  sl.op = "logout" =>
                  /\ sl.status # BAD_REQUEST
                  /\ sl.error # "No token provided"
                  /\ (sl.nextCalled /\ sl.pc = "done") =>
                        sl.status \in {OK, INTERNAL_SERVER_ERROR}
                  /\ sl.nextCalled =>
                        /\ sl.tok = extractTokenFromHeader(sl.hdr)
                        /\ JwtVerify(sl.tok, env.secret, sl.at) = "ok")
    /\ [][\A s \in Slots :
            LogoutStepOf(s) =>
               /\ slots[s].nextCalled
               /\ \A r \in store' \ store :
                     /\ r.token = extractTokenFromHeader(slots[s].hdr)
                     /\ verifyToken(r.token, slots[s].at)
                     /\ r.userId = r.token.id]_vars
C30_Witness ==
    \E s, r \in Slots :
        /\ slots[s].op = "logout" /\ slots[s].pc = "done" /\ slots[s].nextCalled
        /\ slots[s].status = INTERNAL_SERVER_ERROR
        /\ slots[r].op = "logout" /\ slots[r].pc = "done" /\ slots[r].nextCalled
        /\ slots[r].status = OK
        /\ \E row \in store : row.token = slots[r].tok /\ row.userId = slots[r].reqUser.id

====
